---- MODULE Spec2Model ----
(***************************************************************************)
(* Model of trazor_agent/monitoring.c: two uprobe handlers that correlate  *)
(* the start and the end of an nginx connection through a BPF hash map     *)
(* (latency) and a BPF ring buffer (events).                               *)
(*                                                                         *)
(* A handler runs to completion on its CPU, concurrently with the handlers *)
(* running on the other CPUs; each helper call (map update, map lookup,    *)
(* ring buffer reserve) is atomic.  A step of a handler runs up to and     *)
(* including its next access to the map or the ring buffer.  The pid and   *)
(* the value of bpf_ktime_get_ns() are inputs of the invocation: the clock *)
(* is read on each CPU without synchronisation, so the model does not      *)
(* assume an order between the values two invocations read.                *)
(***************************************************************************)
EXTENDS Integers, Sequences, FiniteSets, TLC

\* ---- bounds of the model ------------------------------------------------
NCpu == 2          \* CPUs running handlers concurrently
MaxPid == 3        \* process ids are 1..MaxPid
MaxTime == 1       \* bpf_ktime_get_ns() returns a value in 0..MaxTime
MaxEntries == 2    \* max_entries of the latency map (192 * 1024 in the source)
RingCap == 2       \* records the events ring buffer holds (256 KiB in the source)
MaxSignals == 4    \* handler invocations in one run

Cpus == 1..NCpu
\* the map key is the low 32 bits of pid (the upper half of pid_tgid), read
\* through &pid on a little-endian target: one key per process id
Pids == 1..MaxPid
Times == 0..MaxTime

\* u64 arithmetic wraps; the modulus is scaled down from 2^64 to fit the
\* model checker's integers, every timestamp of the model is below it.
Word == 2^30

\* content of a field of a reserved record that the handler has not written
Unset == 0 - 1

VARIABLES
    latency,    \* the hash map: a set of elements [key, value]
    events,     \* the ring buffer: every record reserved so far, in order
    cons_pos,   \* number of records the consumer has taken
    drained,    \* the records the consumer's last poll returned
    pc,         \* per CPU: position of the running handler
    pid,        \* per CPU: local pid
    ts,         \* per CPU: local ts
    req_info,   \* per CPU: local req_info, index into events (0 = NULL)
    counters,   \* the out-of-band counters the program maintains
    trace,      \* history: per key, the signals processed so far, in order
    nsig,       \* history: number of handler invocations so far
    polls       \* history: consumer polls since the last End step, up to two

vars == <<latency, events, cons_pos, drained, pc, pid, ts, req_info,
          counters, trace, nsig, polls>>

CounterNames == {"UnmatchedEnd", "IndexOverflow", "Dropped", "Anomaly"}

\* ---- the hash map (BPF_MAP_TYPE_HASH, key __u32, value __u64) -----------
Pending(m, k) == \E e \in m : e.key = k

\* bpf_map_lookup_elem: the value of the element stored under k
MapLookup(m, k) == (CHOOSE e \in m : e.key = k).value

\* a full map evicts an element to make room for a new key
MapUpdateEvict(m, k, v) ==
    IF Pending(m, k)
    THEN {e \in m : e.key # k} \cup {[key |-> k, value |-> v]}
    ELSE IF Cardinality(m) >= MaxEntries
         THEN (m \ {CHOOSE e \in m : TRUE}) \cup {[key |-> k, value |-> v]}
         ELSE m \cup {[key |-> k, value |-> v]}

\* an update adds an element without replacing the one stored under the key
MapUpdateDup(m, k, v) ==
    IF Cardinality(m) >= MaxEntries /\ ~Pending(m, k)
    THEN m
    ELSE m \cup {[key |-> k, value |-> v]}

\* an update of a new key lands on the element of another key
MapUpdateCollide(m, k, v) ==
    IF Pending(m, k)
    THEN {e \in m : e.key # k} \cup {[key |-> k, value |-> v]}
    ELSE IF Cardinality(m) >= MaxEntries
         THEN m
         ELSE IF m # {}
              THEN (m \ {CHOOSE e \in m : TRUE}) \cup {[key |-> k, value |-> v]}
              ELSE m \cup {[key |-> k, value |-> v]}

\* bpf_map_update_elem(&latency, &pid, &ts, BPF_ANY): replaces the element
\* stored under the key; a new key in a full map is refused (-E2BIG, which
\* the caller ignores)
MapUpdate(m, k, v) ==
    IF Pending(m, k)
    THEN {e \in m : e.key # k} \cup {[key |-> k, value |-> v]}
    ELSE IF Cardinality(m) >= MaxEntries
         THEN m
         ELSE m \cup {[key |-> k, value |-> v]}

\* ---- the ring buffer (BPF_MAP_TYPE_RINGBUF) -----------------------------
\* records between the consumer position and the producer position
RingUsed == Len(events) - cons_pos

RingFull == RingUsed >= RingCap

\* a reserved record: busy until submitted or discarded, fields unwritten
Reserved == [busy |-> TRUE, timestamp |-> Unset, latency_ns |-> Unset, pid |-> Unset]

\* the consumer reads up to the first record that is still busy
RECURSIVE CommittedPrefix(_)
CommittedPrefix(p) ==
    IF p < Len(events) /\ ~events[p + 1].busy
    THEN CommittedPrefix(p + 1)
    ELSE p

\* ---- history ------------------------------------------------------------
Sig(o, t, s, f, fl, v, r) ==
    [op |-> o, ts |-> t, slot |-> s, found |-> f, full |-> fl, val |-> v, ret |-> r]

Log(k, s) == trace' = [trace EXCEPT ![k] = Append(@, s)]

\* ---- Init ---------------------------------------------------------------
Init ==
    /\ latency = {}
    /\ events = <<>>
    /\ cons_pos = 0
    /\ drained = <<>>
    /\ pc = [c \in Cpus |-> "idle"]
    /\ pid = [c \in Cpus |-> 0]
    /\ ts = [c \in Cpus |-> 0]
    /\ req_info = [c \in Cpus |-> 0]
    /\ counters = [n \in CounterNames |-> 0]
    /\ trace = [k \in Pids |-> <<>>]
    /\ nsig = 0
    /\ polls = 0

\* return 0: the handler's locals go out of scope
Return(c) ==
    /\ pc' = [pc EXCEPT ![c] = "idle"]
    /\ pid' = [pid EXCEPT ![c] = 0]
    /\ ts' = [ts EXCEPT ![c] = 0]
    /\ req_info' = [req_info EXCEPT ![c] = 0]

\* ---- get_conn_start -----------------------------------------------------
\* lines 28-33 on CPU c for process k, bpf_ktime_get_ns() returning t:
\* bpf_map_update_elem(&latency, &pid, &ts, BPF_ANY); return 0
get_conn_start(c, k, t) ==
    /\ pc[c] = "idle"
    /\ nsig < MaxSignals
    /\ nsig' = nsig + 1
    /\ latency' = MapUpdate(latency, k, t)
    /\ Log(k, Sig("Start", t, 0, Pending(latency, k),
                  Cardinality(latency) >= MaxEntries, Unset, "ok"))
    /\ UNCHANGED <<events, cons_pos, drained, pc, pid, ts, req_info, counters,
                   polls>>

\* ---- get_latency_on_end -------------------------------------------------
\* lines 39-45 on CPU c for process k, bpf_ktime_get_ns() returning t:
\* req_info = bpf_ringbuf_reserve(...); if (!req_info) return 0
EndReserve(c, k, t) ==
    /\ pc[c] = "idle"
    /\ nsig < MaxSignals
    /\ nsig' = nsig + 1
    /\ IF RingFull
       THEN /\ Log(k, Sig("End", t, 0, Pending(latency, k), TRUE, Unset, "ok"))
            /\ UNCHANGED <<events, pc, pid, ts, req_info>>
       ELSE /\ events' = Append(events, Reserved)
            /\ req_info' = [req_info EXCEPT ![c] = Len(events) + 1]
            /\ pid' = [pid EXCEPT ![c] = k]
            /\ ts' = [ts EXCEPT ![c] = t]
            /\ pc' = [pc EXCEPT ![c] = "end_lookup"]
            /\ UNCHANGED trace
    /\ polls' = 0
    /\ UNCHANGED <<latency, cons_pos, drained, counters>>

\* lines 47-57 when the lookup finds the key: the record is filled and the
\* handler returns; the record is neither submitted nor discarded and the
\* map element is not deleted
EndLookupFound(c) ==
    /\ pc[c] = "end_lookup"
    /\ Pending(latency, pid[c])
    /\ LET init == MapLookup(latency, pid[c])
           delta == (ts[c] - init) % Word
       IN /\ events' = [events EXCEPT ![req_info[c]] =
                           [busy |-> TRUE, timestamp |-> ts[c],
                            latency_ns |-> delta, pid |-> pid[c]]]
          /\ Log(pid[c], Sig("End", ts[c], req_info[c], TRUE, FALSE, init, "ok"))
    /\ Return(c)
    /\ polls' = 0
    /\ UNCHANGED <<latency, cons_pos, drained, counters, nsig>>

\* lines 47-57 when the lookup returns NULL: *init dereferences a null
\* pointer.  The handler either faults at line 52 (the record keeps the
\* timestamp written at line 47) or goes on with whatever value the read
\* produced.
EndLookupNull(c) ==
    /\ pc[c] = "end_lookup"
    /\ ~Pending(latency, pid[c])
    /\ \/ /\ events' = [events EXCEPT ![req_info[c]].timestamp = ts[c]]
          /\ pc' = [pc EXCEPT ![c] = "fault"]
          /\ pid' = [pid EXCEPT ![c] = 0]
          /\ ts' = [ts EXCEPT ![c] = 0]
          /\ req_info' = [req_info EXCEPT ![c] = 0]
          /\ Log(pid[c], Sig("End", ts[c], req_info[c], FALSE, FALSE, Unset, "fault"))
       \/ \E init \in Times :
             /\ events' = [events EXCEPT ![req_info[c]] =
                              [busy |-> TRUE, timestamp |-> ts[c],
                               latency_ns |-> (ts[c] - init) % Word,
                               pid |-> pid[c]]]
             /\ Return(c)
             /\ Log(pid[c], Sig("End", ts[c], req_info[c], FALSE, FALSE, init, "ok"))
    /\ polls' = 0
    /\ UNCHANGED <<latency, cons_pos, drained, counters, nsig>>

\* ---- the consumer -------------------------------------------------------
\* a poll that does not look at the busy bit of the records it takes
DrainIgnoreBusy ==
    /\ drained' = SubSeq(events, cons_pos + 1, Len(events))
    /\ cons_pos' = Len(events)
    /\ polls' = IF polls < 2 THEN polls + 1 ELSE polls
    /\ UNCHANGED <<latency, events, pc, pid, ts, req_info, counters, trace, nsig>>

\* one poll of the ring buffer: takes every committed record up to the first
\* busy one
Drain ==
    /\ LET p == CommittedPrefix(cons_pos)
       IN /\ drained' = SubSeq(events, cons_pos + 1, p)
          /\ cons_pos' = p
    /\ polls' = IF polls < 2 THEN polls + 1 ELSE polls
    /\ UNCHANGED <<latency, events, pc, pid, ts, req_info, counters, trace, nsig>>

Next ==
    \/ \E c \in Cpus, k \in Pids, t \in Times : get_conn_start(c, k, t)
    \/ \E c \in Cpus, k \in Pids, t \in Times : EndReserve(c, k, t)
    \/ \E c \in Cpus : EndLookupFound(c)
    \/ \E c \in Cpus : EndLookupNull(c)
    \/ Drain

Spec == Init /\ [][Next]_vars

\* a handler runs to completion on its CPU without being preempted, and the
\* consumer keeps polling
FairSpec ==
    /\ Spec
    /\ \A c \in Cpus : WF_vars(EndLookupFound(c)) /\ WF_vars(EndLookupNull(c))
    /\ WF_vars(Drain)

\* ---- what the claims speak of -------------------------------------------
\* the positions of the log of key k
Idx(k) == 1..Len(trace[k])

Starts(k) == {i \in Idx(k) : trace[k][i].op = "Start"}

Ends(k) == {i \in Idx(k) : trace[k][i].op = "End"}

\* a record the consumer can read: submitted by its producer
Committed(s) == s > 0 /\ s <= Len(events) /\ ~events[s].busy

\* the End logged at position i of key k filled a CompletedEvent
Created(k, i) == trace[k][i].op = "End" /\ trace[k][i].slot > 0 /\ trace[k][i].ret = "ok"

\* a Start that found the index full and its key not pending
Overflowed(s) == s.op = "Start" /\ s.full /\ ~s.found

\* an End that found no pending start for its key
Unmatched(e) == e.op = "End" /\ ~e.found

\* a step that processes a signal of key k, and the signal it logs
Logged(k) == Len(trace'[k]) = Len(trace[k]) + 1

NewSig(k) == trace'[k][Len(trace'[k])]

\* C1: a Start(k, t1) directly followed by End(k, t2), t1 <= t2, with room in
\* the channel, makes one CompletedEvent of k available to the consumer, with
\* latency t2 - t1, timestamp t2 and contextKey k.
C1_StartEndDelivered ==
    \A k \in Pids : \A i \in Idx(k) :
        (/\ i + 1 \in Idx(k)
         /\ trace[k][i].op = "Start"
         /\ trace[k][i + 1].op = "End"
         /\ trace[k][i].ts <= trace[k][i + 1].ts
         /\ ~trace[k][i + 1].full)
        => LET e == trace[k][i + 1]
           IN /\ Committed(e.slot)
              /\ events[e.slot].latency_ns = e.ts - trace[k][i].ts
              /\ events[e.slot].timestamp = e.ts
              /\ events[e.slot].pid = k

\* C2: an End(k, *) with no pending start for k emits no CompletedEvent,
\* returns normally without using a start value, and is counted once in the
\* UnmatchedEnd counter.
C2_UnmatchedEndCounted ==
    /\ \A k \in Pids : \A i \in Ends(k) :
          Unmatched(trace[k][i]) =>
             /\ trace[k][i].ret = "ok"
             /\ trace[k][i].val = Unset
             /\ ~Committed(trace[k][i].slot)
    /\ counters["UnmatchedEnd"] =
          Cardinality({x \in Pids \X (1..MaxSignals) :
                          x[2] \in Ends(x[1]) /\ Unmatched(trace[x[1]][x[2]])})

\* C3: once End(k, *) has been processed for a pending key k, and until a
\* later Start(k, *), the index holds no entry for k.
C3_EndRemovesPending ==
    \A k \in Pids :
        (/\ Len(trace[k]) > 0
         /\ trace[k][Len(trace[k])].op = "End"
         /\ trace[k][Len(trace[k])].found)
        => ~Pending(latency, k)

\* C4: the CompletedEvents created for a key from a pending start never
\* outnumber the Start signals processed for it: no pending start is matched
\* by two End signals.
C4_ExactlyOnce ==
    \A k \in Pids :
        Cardinality({i \in Idx(k) : Created(k, i) /\ trace[k][i].found})
            <= Cardinality(Starts(k))

\* C5: Start(k, t1), Start(k, t2), End(k, t3) in a row with t1 < t2 <= t3
\* produce one CompletedEvent of k, with latency t3 - t2.
C5_LaterStartWins ==
    \A k \in Pids : \A i \in Idx(k) :
        (/\ i + 2 \in Idx(k)
         /\ trace[k][i].op = "Start"
         /\ trace[k][i + 1].op = "Start"
         /\ trace[k][i + 2].op = "End"
         /\ trace[k][i].ts < trace[k][i + 1].ts
         /\ trace[k][i + 1].ts <= trace[k][i + 2].ts)
        => LET e == trace[k][i + 2]
           IN /\ Committed(e.slot)
              /\ events[e.slot].latency_ns = e.ts - trace[k][i + 1].ts

\* C6: an End(k, t2) matched with a pending start t1 > t2 gives latency 0,
\* not the wrapped difference, and each such End is counted as an anomaly.
C6_LatencyClamped ==
    /\ \A k \in Pids : \A i \in Ends(k) :
          (Created(k, i) /\ trace[k][i].found /\ trace[k][i].val > trace[k][i].ts)
          => events[trace[k][i].slot].latency_ns = 0
    /\ counters["Anomaly"] =
          Cardinality({x \in Pids \X (1..MaxSignals) :
                          /\ x[2] \in Ends(x[1])
                          /\ Created(x[1], x[2])
                          /\ trace[x[1]][x[2]].found
                          /\ trace[x[1]][x[2]].val > trace[x[1]][x[2]].ts})

\* C7: an End for a pending key that finds the channel full is dropped: the
\* drop counter goes up by one, the records in the channel stay as they are,
\* and they are the records a later drain yields.
C7_DropOnFull ==
    [][\A k \in Pids :
          (Logged(k) /\ NewSig(k).op = "End" /\ NewSig(k).full /\ NewSig(k).found)
          => /\ events' = events
             /\ counters'["Dropped"] = counters["Dropped"] + 1
             /\ \A s \in (cons_pos + 1)..Len(events) : Committed(s)]_vars

\* C8: the index never holds more than its capacity, and a Start(k, *) that
\* arrives when the index is at capacity returns normally and leaves the
\* entry of every other key as it was.
IndexWithinCapacity == Cardinality(latency) <= MaxEntries

StartAtCapacityFrame ==
    \A k \in Pids :
        (/\ Logged(k)
         /\ NewSig(k).op = "Start"
         /\ Cardinality(latency) >= MaxEntries)
        => /\ NewSig(k).ret = "ok"
           /\ pc' = pc
           /\ {e \in latency' : e.key # k} = {e \in latency : e.key # k}

C8_IndexBounded == []IndexWithinCapacity /\ [][StartAtCapacityFrame]_vars

C8_Witness ==
    /\ Cardinality(latency) = MaxEntries
    /\ \E k \in Pids : \E i \in Starts(k) :
          Overflowed(trace[k][i]) /\ ~Pending(latency, k)

\* C9: a Start for a key that is not pending, arriving at a full index, is
\* not recorded, keeps every entry and is counted once as IndexOverflow; an
\* End that later matches a key is matched against the start the index kept.
C9_Rejected ==
    \A k \in Pids :
        (/\ Logged(k)
         /\ NewSig(k).op = "Start"
         /\ Cardinality(latency) >= MaxEntries
         /\ ~Pending(latency, k))
        => /\ latency' = latency
           /\ counters'["IndexOverflow"] = counters["IndexOverflow"] + 1

C9_MatchedAgainstKept ==
    \A k \in Pids : \A i \in Idx(k) :
        (/\ i + 1 \in Idx(k)
         /\ trace[k][i].op = "Start"
         /\ ~Overflowed(trace[k][i])
         /\ Created(k, i + 1)
         /\ trace[k][i + 1].found)
        => trace[k][i + 1].val = trace[k][i].ts

C9_RejectOnFull == []C9_MatchedAgainstKept /\ [][C9_Rejected]_vars

\* C10: the index holds at most one pending start per key.
C10_OnePendingPerKey ==
    \A e1 \in latency : \A e2 \in latency : e1.key = e2.key => e1 = e2

C10_Witness ==
    \E k \in Pids : \E i \in Starts(k) :
        /\ trace[k][i].found
        /\ Pending(latency, k)
        /\ MapLookup(latency, k) = trace[k][i].ts

\* C11: every handler invocation eventually returns, whatever the state of
\* the index, of the channel and of the consumer.
C11_HandlersReturn ==
    \A c \in Cpus : (pc[c] # "idle") ~> (pc[c] = "idle")

\* C12: a drain that directly follows a drain, with no End step in between,
\* yields the empty sequence; a drain delivers committed records only, each
\* of them once: the records between the old and the new consumer position.
DrainDelivers ==
    (cons_pos' # cons_pos \/ drained' # drained \/ polls' > polls)
    => /\ cons_pos' >= cons_pos
       /\ drained' = SubSeq(events, cons_pos + 1, cons_pos')
       /\ \A s \in (cons_pos + 1)..cons_pos' : Committed(s)

SecondDrainEmpty == polls = 2 => drained = <<>>

C13_DroppedEndTakesStart ==
    \A k \in Pids :
        (/\ Len(trace[k]) > 0
         /\ trace[k][Len(trace[k])].op = "End"
         /\ trace[k][Len(trace[k])].full
         /\ trace[k][Len(trace[k])].found)
        => ~Pending(latency, k)

\* C14: an End(k, *) that finds no pending start for k has put no record in
\* the completion channel and holds none of its capacity.
C14_UnmatchedEndLeavesChannel ==
    \A k \in Pids : \A i \in Ends(k) :
        Unmatched(trace[k][i]) => trace[k][i].slot = 0

\* C15: a Start(k, *) issued while the index is below capacity, and every
\* step of an End(k, *), leave the entry of each other key as it was.
StartBelowCapacity(k) ==
    Logged(k) /\ NewSig(k).op = "Start" /\ ~NewSig(k).full

EndStep(k) ==
    \/ Logged(k) /\ NewSig(k).op = "End"
    \/ \E c \in Cpus : pc[c] = "idle" /\ pc'[c] = "end_lookup" /\ pid'[c] = k

C15_OtherKeysUntouched ==
    [][\A k \in Pids :
          (StartBelowCapacity(k) \/ EndStep(k))
          => {e \in latency' : e.key # k} = {e \in latency : e.key # k}]_vars

C15_Witness ==
    \E k \in Pids : \E j \in Pids :
        /\ j # k
        /\ Pending(latency, j)
        /\ \E i \in Starts(j) : MapLookup(latency, j) = trace[j][i].ts
        /\ \E i \in Starts(k) : ~trace[k][i].full
        /\ \E i \in Ends(k) : trace[k][i].slot > 0

\* C16: whenever no handler is running, the channel holds no record that is
\* reserved but neither submitted nor discarded.
C16_NoDanglingReservation ==
    (\A c \in Cpus : pc[c] = "idle")
    => \A s \in (cons_pos + 1)..Len(events) : ~events[s].busy

\* C17: with a consumer that keeps draining, a full channel eventually has
\* free capacity again.
C17_SaturationRecovers == RingFull ~> ~RingFull

====
